---- MODULE Spec2Model ----
(***************************************************************************)
(* Item Resource Service (src/server.js): an Express application exposing  *)
(* CRUD routes over one mongoose collection of items, the mutating routes  *)
(* gated by the requireApiKey middleware.                                  *)
(*                                                                         *)
(* Abstractions.                                                           *)
(*  - A JavaScript string is a sequence of characters, so that             *)
(*    String.prototype.trim is computed and not assumed.  A character is a *)
(*    one-character string; a code point outside ASCII, and U+000B, is     *)
(*    written by its name ("U+00A0", "U+2028").                            *)
(*  - A JSON value of the request body is a record [t, s, callable]: t is  *)
(*    its `typeof' (with "null" and "undefined" told apart), callable says *)
(*    whether value.toString() can be called (not on undefined, not on     *)
(*    null, not on an object with an own toString property, which JSON can *)
(*    only make a non-function) and s is what the call yields.  req.body   *)
(*    is a record [wellFormed, parsed, name, description]: wellFormed is   *)
(*    FALSE when express.json() rejects the body, and parsed is FALSE when *)
(*    no body was parsed and req.body is undefined.                        *)
(*  - An ObjectId is a positive integer: the store hands out 1, 2, ... and *)
(*    never repeats one.  The route parameter BadId stands for every       *)
(*    string mongoose cannot cast to an ObjectId, and Undecodable for      *)
(*    every :id the router cannot percent-decode ("%E0%A4%A").             *)
(*  - A request passes express.json() and the router before it reaches     *)
(*    requireApiKey and its handler: a malformed JSON body, and then an    *)
(*    undecodable :id, is answered 400 by Express before the key is read.  *)
(*  - Time is a counter `now'; zero or more milliseconds pass between two  *)
(*    creations, so two createdAt stamps may be equal.                     *)
(*  - A handler is not one step.  Its synchronous part runs when the       *)
(*    request arrives: it answers at once, or it issues one store call and *)
(*    yields at its await.  The store runs the call later, atomically, and *)
(*    the handler writes the response in a later turn still.  Handlers of  *)
(*    different clients interleave at these points.                        *)
(*  - `out' is the response being written, with its request.  Finish ends   *)
(*    the write before anything else happens, so every response is seen in *)
(*    a state of its own.                                                  *)
(*  - The store is reachable: connection failures (the generic 500 of the  *)
(*    catch blocks on a driver error) are not modelled.  updatedAt is not  *)
(*    modelled either: no handler reads it.                                *)
(***************************************************************************)
EXTENDS Integers, Sequences, FiniteSets, TLC

\* The most items the store ever creates (caps the ObjectId counter).
MaxId == 2

-----------------------------------------------------------------------------
(* JavaScript values and strings *)

Undefined == [t |-> "undefined", s |-> <<>>, callable |-> FALSE]
Null == [t |-> "null", s |-> <<>>, callable |-> FALSE]
Str(chars) == [t |-> "string", s |-> chars, callable |-> TRUE]
Num7 == [t |-> "number", s |-> <<"7">>, callable |-> TRUE]
EmptyArray == [t |-> "object", s |-> <<>>, callable |-> TRUE]
\* { "toString": 1 }: an object whose own toString is not a function
NoToString == [t |-> "object", s |-> <<>>, callable |-> FALSE]

\* The values a client puts under "name" and under "description".
NameInputs ==
    {Undefined, Null, Num7, EmptyArray, NoToString,
     Str(<<>>), Str(<<" ", "\t">>), Str(<<"\n", "a", " ">>)}
DescInputs == {Undefined, Null, Num7, NoToString, Str(<<" ", "a", "\t">>)}

\* req.body when no body was parsed: undefined.
NoBody ==
    [wellFormed |-> TRUE, parsed |-> FALSE,
     name |-> Undefined, description |-> Undefined]
\* A body that is not JSON ("{bad"): express.json() fails on it.
MalformedBody ==
    [wellFormed |-> FALSE, parsed |-> FALSE,
     name |-> Undefined, description |-> Undefined]
Bodies ==
    [wellFormed : {TRUE}, parsed : {TRUE},
     name : NameInputs, description : DescInputs]
        \cup {NoBody, MalformedBody}
\* What the handlers that read no body are sent: nothing, or a body that
\* express.json() rejects when B has one.
Unread(B) == {NoBody} \cup (B \cap {MalformedBody})

\* The WhiteSpace and LineTerminator code points String.prototype.trim strips.
WhiteSpace ==
    {" ", "\t", "\n", "\r", "\f", "U+000B", "U+00A0", "U+1680", "U+2000",
     "U+2001", "U+2002", "U+2003", "U+2004", "U+2005", "U+2006", "U+2007",
     "U+2008", "U+2009", "U+200A", "U+2028", "U+2029", "U+202F", "U+205F",
     "U+3000", "U+FEFF"}

RECURSIVE TrimStart(_)
TrimStart(str) ==
    IF str = <<>> THEN <<>>
    ELSE IF Head(str) \in WhiteSpace THEN TrimStart(Tail(str)) ELSE str

RECURSIVE TrimEnd(_)
TrimEnd(str) ==
    IF str = <<>> THEN <<>>
    ELSE IF str[Len(str)] \in WhiteSpace THEN TrimEnd(SubSeq(str, 1, Len(str) - 1))
         ELSE str

\* String.prototype.trim
Trim(str) == TrimEnd(TrimStart(str))

\* !v for the values above
Falsy(v) ==
    \/ v.t \in {"undefined", "null"}
    \/ v.t = "string" /\ v.s = <<>>
    \/ v.t = "number" /\ v.s = <<"0">>

\* !name || typeof name !== "string" || name.trim().length === 0
NameRejected(name) ==
    \/ Falsy(name)
    \/ name.t # "string"
    \/ Len(Trim(name.s)) = 0

\* typeof description === "string" ? description.trim() : ""
DescriptionOf(description) ==
    IF description.t = "string" THEN Trim(description.s) ELSE <<>>

-----------------------------------------------------------------------------
(* The API key middleware *)

\* process.env.API_KEY: the process exits at start-up when it is empty.
API_KEY == "secret"
NoHeader == "(no header)"
\* req.header("x-api-key"): absent, sent empty, a wrong key, the right key.
Keys == {NoHeader, "", "guess", API_KEY}

\* requireApiKey: the status it answers, or 0 when it calls next().
RequireApiKey(key) ==
    IF key = NoHeader \/ key = "" THEN 401
    ELSE IF key # API_KEY THEN 403
    ELSE 0

AuthMessage(status) == IF status = 401 THEN "Unauthorized" ELSE "Forbidden"

-----------------------------------------------------------------------------
(* The store *)

BadId == 0
Undecodable == -1
ObjectIds == 1..MaxId
\* The ids the router hands to the handlers, and every :id of a request.
DecodedIds == ObjectIds \cup {BadId}
RouteIds == DecodedIds \cup {Undecodable}

\* Variant: an id that is looked up as it comes, never cast.
CastFails_Never(id) == FALSE

\* mongoose casts the :id parameter to an ObjectId, or throws CastError.
CastFails(id) == id = BadId

\* The position of the document with this _id, 0 when there is none.
IndexOf(coll, id) ==
    IF \E i \in 1..Len(coll) : coll[i].id = id
    THEN CHOOSE i \in 1..Len(coll) : coll[i].id = id
    ELSE 0

\* Item.create: the schema's trim setters and defaults, the store's _id and
\* the createdAt timestamp.
NewItem(id, name, description, at) ==
    [id |-> id, name |-> Trim(name), description |-> Trim(description),
     createdAt |-> at]

\* The orders in which the store may hand over n documents.
Scans(n) == {p \in [1..n -> 1..n] : \A i, j \in 1..n : p[i] = p[j] => i = j}

\* One step of the sort: `it' goes behind every document that is at least as new.
RECURSIVE InsertDesc(_, _)
InsertDesc(sorted, it) ==
    IF sorted = <<>> THEN <<it>>
    ELSE IF Head(sorted).createdAt >= it.createdAt
         THEN <<Head(sorted)>> \o InsertDesc(Tail(sorted), it)
         ELSE <<it>> \o sorted

\* Variant: find() without sort().
SortByCreatedAtDesc_Unsorted(docs) == docs

\* sort({ createdAt: -1 })
RECURSIVE SortByCreatedAtDesc(_)
SortByCreatedAtDesc(docs) ==
    IF docs = <<>> THEN <<>>
    ELSE InsertDesc(SortByCreatedAtDesc(SubSeq(docs, 1, Len(docs) - 1)),
                    docs[Len(docs)])

\* Variant: a delete that finds the document and leaves it.
Remove_Nothing(coll, i) == coll

\* The collection without its i-th document.
Remove(coll, i) == SubSeq(coll, 1, i - 1) \o SubSeq(coll, i + 1, Len(coll))

\* The update document PUT builds: both fields, always.
PutUpdate(body) ==
    [name |-> Trim(body.name.s), description |-> DescriptionOf(body.description)]

\* The fields of the body PATCH looks at: those that are not undefined.
PatchFields(body) == {f \in {"name", "description"} : body[f].t # "undefined"}

\* req.body[field] throws a TypeError when req.body is undefined, and
\* req.body[field].toString() throws one when the field is null or its
\* toString is not a function.
PatchThrows(body) ==
    \/ ~body.parsed
    \/ \E f \in PatchFields(body) : ~body[f].callable

\* updates[field] = req.body[field].toString().trim()
PatchUpdates(body) == [f \in PatchFields(body) |-> Trim(body[f].s)]

\* Variant: findByIdAndUpdate without runValidators.
Validates_Off(update) == TRUE

\* runValidators: true -- the schema's `required' validator fails on an empty
\* name; description has no validator.
Validates(update) == "name" \in DOMAIN update => update.name # <<>>

\* Variant: an update that resets a description it was not given.
ApplyUpdate_ResetsDescription(item, update) ==
    [item EXCEPT
        !.name = IF "name" \in DOMAIN update THEN update.name ELSE @,
        !.description =
            IF "description" \in DOMAIN update THEN update.description ELSE <<>>]

\* $set of the update's fields on one document.
ApplyUpdate(item, update) ==
    [item EXCEPT
        !.name = IF "name" \in DOMAIN update THEN update.name ELSE @,
        !.description =
            IF "description" \in DOMAIN update THEN update.description ELSE @]

\* Item.findByIdAndUpdate(id, update, { new: true, runValidators: true }):
\* the filter is cast first, the update is validated next, and then the store
\* updates the matching document, if there is one.
FindByIdAndUpdate(coll, id, update) ==
    IF CastFails(id) THEN [err |-> "CastError", coll |-> coll, at |-> 0]
    ELSE IF ~Validates(update)
    THEN [err |-> "ValidationError", coll |-> coll, at |-> 0]
    ELSE IF IndexOf(coll, id) = 0 THEN [err |-> "none", coll |-> coll, at |-> 0]
    ELSE [err |-> "none",
          coll |-> [coll EXCEPT ![IndexOf(coll, id)] = ApplyUpdate(@, update)],
          at |-> IndexOf(coll, id)]

\* What PUT and PATCH answer after findByIdAndUpdate.
UpdateResponse(outcome, message) ==
    IF outcome.err = "CastError" THEN [status |-> 400, message |-> "Invalid item id"]
    ELSE IF outcome.err # "none" THEN [status |-> 500, message |-> "Server error"]
    ELSE IF outcome.at = 0 THEN [status |-> 404, message |-> "Item not found"]
    ELSE [status |-> 200, message |-> message, data |-> outcome.coll[outcome.at]]

-----------------------------------------------------------------------------
(* The handlers *)

\* The clients whose requests may be in flight together.
Clients == {"c1", "c2"}

VARIABLES
    items,      \* the collection, in insertion order
    nextId,     \* the next ObjectId the store hands out
    now,        \* the clock
    deleted,    \* the ids findByIdAndDelete has removed
    pending,    \* per client: the handler suspended at its await, if any
    out         \* the response being written

vars == <<items, nextId, now, deleted, pending, out>>

NoRequest == [op |-> "none"]
NoResponse == [status |-> 0]
NoExchange == [req |-> NoRequest, res |-> NoResponse]
NoHandler == [phase |-> "idle"]
Quiet == out = NoExchange

Error(status, message) == [status |-> status, message |-> message]

\* The handler's store call has been issued and the handler has yielded.
Awaiting(request) == [phase |-> "awaiting", req |-> request]
\* The store has run the call; `response' is what the handler will write.
Replied(request, response) ==
    [phase |-> "replied", req |-> request, res |-> response]

Init ==
    /\ items = <<>>
    /\ nextId = 1
    /\ now = 0
    /\ deleted = {}
    /\ pending = [c \in Clients |-> NoHandler]
    /\ out = NoExchange

\* The handler answers in the turn the request arrived in.
Answer(request, response) ==
    /\ out' = [req |-> request, res |-> response]
    /\ UNCHANGED <<items, nextId, now, deleted, pending>>

\* express.json() fails: the default error handler answers.
ParseError == Error(400, "entity.parse.failed")
\* The router fails to decode :id: the default error handler answers.
DecodeError == Error(400, "Failed to decode param")

\* requireApiKey answers.
Refuse(request) ==
    Answer(request, Error(RequireApiKey(request.key),
                          AuthMessage(RequireApiKey(request.key))))

\* The handler issues its store call and yields.
Await(c, request) ==
    /\ pending' = [pending EXCEPT ![c] = Awaiting(request)]
    /\ UNCHANGED <<items, nextId, now, deleted, out>>

\* The creations already issued and not yet run.
CreatesInFlight ==
    Cardinality({c \in Clients :
        pending[c].phase = "awaiting" /\ pending[c].req.op = "POST"})

\* POST /api/items, to its await
PostItem(c, key, body) ==
    /\ Quiet /\ pending[c] = NoHandler
    /\ LET request == [op |-> "POST", key |-> key, body |-> body]
       IN IF ~body.wellFormed THEN Answer(request, ParseError)
          ELSE IF RequireApiKey(key) # 0 THEN Refuse(request)
          ELSE IF ~body.parsed THEN Answer(request, Error(500, "Server error"))
          ELSE IF NameRejected(body.name)
          THEN Answer(request, Error(400, "name is required"))
          ELSE /\ nextId + CreatesInFlight <= MaxId
               /\ Await(c, request)

\* GET /api/items, to its await
ListItems(c, key, body) ==
    /\ Quiet /\ pending[c] = NoHandler
    /\ LET request == [op |-> "LIST", key |-> key, body |-> body]
       IN IF ~body.wellFormed THEN Answer(request, ParseError)
          ELSE Await(c, request)

\* GET /api/items/:id, to its await
GetItem(c, key, id, body) ==
    /\ Quiet /\ pending[c] = NoHandler
    /\ LET request == [op |-> "GET", key |-> key, id |-> id, body |-> body]
       IN IF ~body.wellFormed THEN Answer(request, ParseError)
          ELSE IF id = Undecodable THEN Answer(request, DecodeError)
          ELSE Await(c, request)

\* PUT /api/items/:id, to its await
PutItem(c, key, id, body) ==
    /\ Quiet /\ pending[c] = NoHandler
    /\ LET request == [op |-> "PUT", key |-> key, id |-> id, body |-> body]
       IN IF ~body.wellFormed THEN Answer(request, ParseError)
          ELSE IF id = Undecodable THEN Answer(request, DecodeError)
          ELSE IF RequireApiKey(key) # 0 THEN Refuse(request)
          ELSE IF ~body.parsed THEN Answer(request, Error(500, "Server error"))
          ELSE IF NameRejected(body.name)
          THEN Answer(request, Error(400, "name is required for PUT"))
          ELSE Await(c, request)

\* PATCH /api/items/:id, to its await
PatchItem(c, key, id, body) ==
    /\ Quiet /\ pending[c] = NoHandler
    /\ LET request == [op |-> "PATCH", key |-> key, id |-> id, body |-> body]
       IN IF ~body.wellFormed THEN Answer(request, ParseError)
          ELSE IF id = Undecodable THEN Answer(request, DecodeError)
          ELSE IF RequireApiKey(key) # 0 THEN Refuse(request)
          ELSE IF PatchThrows(body)
          THEN Answer(request, Error(500, "Server error"))
          ELSE IF DOMAIN PatchUpdates(body) = {}
          THEN Answer(request, Error(400, "No valid fields provided for PATCH"))
          ELSE Await(c, request)

\* DELETE /api/items/:id, to its await
DeleteItem(c, key, id, body) ==
    /\ Quiet /\ pending[c] = NoHandler
    /\ LET request == [op |-> "DELETE", key |-> key, id |-> id, body |-> body]
       IN IF ~body.wellFormed THEN Answer(request, ParseError)
          ELSE IF id = Undecodable THEN Answer(request, DecodeError)
          ELSE IF RequireApiKey(key) # 0 THEN Refuse(request)
          ELSE Await(c, request)

\* The store has run c's call.
Reply(c, response) ==
    pending' = [pending EXCEPT ![c] = Replied(pending[c].req, response)]

\* Item.create runs.
StoreCreate(c, dt) ==
    /\ Quiet /\ pending[c].phase = "awaiting" /\ pending[c].req.op = "POST"
    /\ LET body == pending[c].req.body
           newItem == NewItem(nextId, Trim(body.name.s),
                              DescriptionOf(body.description), now + dt)
       IN /\ items' = Append(items, newItem)
          /\ Reply(c, [status |-> 201, message |-> "Item created",
                       data |-> newItem])
    /\ nextId' = nextId + 1
    /\ now' = now + dt
    /\ UNCHANGED <<deleted, out>>

\* Item.find().sort({ createdAt: -1 }) runs: the store hands the documents
\* over in an order it chooses and the sort orders them, newest first.
StoreFind(c, scan) ==
    /\ Quiet /\ pending[c].phase = "awaiting" /\ pending[c].req.op = "LIST"
    /\ LET found == SortByCreatedAtDesc([i \in 1..Len(items) |-> items[scan[i]]])
       IN Reply(c, [status |-> 200, count |-> Len(found), data |-> found])
    /\ UNCHANGED <<items, nextId, now, deleted, out>>

\* Item.findById runs.
StoreFindById(c) ==
    /\ Quiet /\ pending[c].phase = "awaiting" /\ pending[c].req.op = "GET"
    /\ LET id == pending[c].req.id
       IN Reply(c, IF CastFails(id) THEN Error(400, "Invalid item id")
                   ELSE IF IndexOf(items, id) = 0
                   THEN Error(404, "Item not found")
                   ELSE [status |-> 200, data |-> items[IndexOf(items, id)]])
    /\ UNCHANGED <<items, nextId, now, deleted, out>>

\* Item.findByIdAndUpdate runs, for PUT and for PATCH.
StoreFindByIdAndUpdate(c) ==
    /\ Quiet /\ pending[c].phase = "awaiting"
    /\ pending[c].req.op \in {"PUT", "PATCH"}
    /\ LET r == pending[c].req
           outcome ==
               FindByIdAndUpdate(items, r.id,
                   IF r.op = "PUT" THEN PutUpdate(r.body)
                                   ELSE PatchUpdates(r.body))
       IN /\ items' = outcome.coll
          /\ Reply(c, UpdateResponse(outcome,
                        IF r.op = "PUT" THEN "Item updated"
                                        ELSE "Item partially updated"))
    /\ UNCHANGED <<nextId, now, deleted, out>>

\* Item.findByIdAndDelete runs.
StoreFindByIdAndDelete(c) ==
    /\ Quiet /\ pending[c].phase = "awaiting" /\ pending[c].req.op = "DELETE"
    /\ UNCHANGED <<nextId, now, out>>
    /\ LET id == pending[c].req.id
       IN IF CastFails(id)
          THEN /\ Reply(c, Error(400, "Invalid item id"))
               /\ UNCHANGED <<items, deleted>>
          ELSE IF IndexOf(items, id) = 0
          THEN /\ Reply(c, Error(404, "Item not found"))
               /\ UNCHANGED <<items, deleted>>
          ELSE /\ Reply(c, [status |-> 200, message |-> "Item deleted",
                            data |-> items[IndexOf(items, id)]])
               /\ items' = Remove(items, IndexOf(items, id))
               /\ deleted' = deleted \cup {id}

\* The handler resumes after its await and writes the response.
Respond(c) ==
    /\ Quiet /\ pending[c].phase = "replied"
    /\ out' = [req |-> pending[c].req, res |-> pending[c].res]
    /\ pending' = [pending EXCEPT ![c] = NoHandler]
    /\ UNCHANGED <<items, nextId, now, deleted>>

\* The response has been sent.
Finish ==
    /\ ~Quiet
    /\ out' = NoExchange
    /\ UNCHANGED <<items, nextId, now, deleted, pending>>

\* The steps of the service when clients draw their keys from K, their ids
\* from I and their bodies from B, and T is what the clock may add between
\* two creations.
NextOver(K, I, B, T) ==
    \/ Quiet /\ \E c \in Clients, key \in K, body \in B : PostItem(c, key, body)
    \/ Quiet /\ \E c \in Clients, key \in K, body \in Unread(B) :
                   ListItems(c, key, body)
    \/ Quiet /\ \E c \in Clients, key \in K, id \in I, body \in Unread(B) :
                   GetItem(c, key, id, body)
    \/ Quiet /\ \E c \in Clients, key \in K, id \in I, body \in B :
                   PutItem(c, key, id, body)
    \/ Quiet /\ \E c \in Clients, key \in K, id \in I, body \in B :
                   PatchItem(c, key, id, body)
    \/ Quiet /\ \E c \in Clients, key \in K, id \in I, body \in Unread(B) :
                   DeleteItem(c, key, id, body)
    \/ Quiet /\ \E c \in Clients, dt \in T : StoreCreate(c, dt)
    \/ Quiet /\ \E c \in Clients, scan \in Scans(Len(items)) : StoreFind(c, scan)
    \/ Quiet /\ \E c \in Clients : StoreFindById(c)
    \/ Quiet /\ \E c \in Clients : StoreFindByIdAndUpdate(c)
    \/ Quiet /\ \E c \in Clients : StoreFindByIdAndDelete(c)
    \/ Quiet /\ \E c \in Clients : Respond(c)
    \/ Finish

Next == NextOver(Keys, RouteIds, Bodies, {0, 1})

\* The service under every request of the alphabet.
Spec == Init /\ [][Next]_vars

Body(name, description) ==
    [wellFormed |-> TRUE, parsed |-> TRUE,
     name |-> name, description |-> description]
GoodName == Str(<<"\n", "a", " ">>)
GoodDescription == Str(<<" ", "a", "\t">>)

\* The service under every key and every id, with few bodies.
NextGate ==
    NextOver(Keys, RouteIds,
             {NoBody, MalformedBody, Body(GoodName, Undefined),
              Body(Undefined, Undefined)}, {1})
SpecGate == Init /\ [][NextGate]_vars

\* The service under every name.
NextName ==
    NextOver({"guess", API_KEY}, {BadId, 1},
             {NoBody} \cup {Body(n, Undefined) : n \in NameInputs}, {1})
SpecName == Init /\ [][NextName]_vars

\* The service under every description, with the configured key.
NextDescription ==
    NextOver({API_KEY}, {BadId, 1},
             {Body(n, d) : n \in {GoodName, Undefined}, d \in DescInputs}, {1})
SpecDescription == Init /\ [][NextDescription]_vars

\* The service under every id the handlers see and with creations in the same millisecond.
NextOrder ==
    NextOver({NoHeader, API_KEY}, DecodedIds,
             {Body(GoodName, Undefined), Body(Undefined, Undefined),
              Body(Undefined, NoToString)}, {0, 1})
SpecOrder == Init /\ [][NextOrder]_vars

-----------------------------------------------------------------------------
(* The claims *)

Mutating == {"POST", "PUT", "PATCH", "DELETE"}
ById == {"GET", "PUT", "PATCH", "DELETE"}
Authorized(r) == r.key = API_KEY

Ids(coll) == {coll[i].id : i \in 1..Len(coll)}

\* A handler answers in the turn its request arrived in.
AnswersAtOnce == Quiet /\ out' # NoExchange /\ pending' = pending
\* The store runs the call c's handler awaits.
RunsFor(c) == pending[c].phase = "awaiting" /\ pending'[c].phase = "replied"
\* c's handler is resumed.
Resumes(c) == pending[c].phase = "replied" /\ pending'[c] = NoHandler

\* A step decides the response to a request when the handler answers at once
\* or when the store runs the handler's call.  Deciding(P): P(r, s) holds of
\* every request r and the response s this step decides for it, and a
\* response written later is the one that was decided, the collection left
\* alone by the write.
Deciding(P(_, _)) ==
    /\ AnswersAtOnce => P(out'.req, out'.res)
    /\ \A c \in Clients :
         /\ RunsFor(c) => P(pending[c].req, pending'[c].res)
         /\ Resumes(c) =>
              /\ out' = [req |-> pending[c].req, res |-> pending[c].res]
              /\ items' = items

\* t is s without its leading and trailing white space.
IsTrimOf(t, s) ==
    /\ t = <<>> \/ (t[1] \notin WhiteSpace /\ t[Len(t)] \notin WhiteSpace)
    /\ \E i \in 0..Len(s) :
         /\ i + Len(t) <= Len(s)
         /\ SubSeq(s, i + 1, i + Len(t)) = t
         /\ \A k \in (1..i) \cup ((i + Len(t) + 1)..Len(s)) : s[k] \in WhiteSpace

\* A value that is a string with something other than white space in it.
NonBlankString(v) ==
    v.t = "string" /\ \E k \in 1..Len(v.s) : v.s[k] \notin WhiteSpace

Supplied(v) == v.t # "undefined"

\* A PATCH body the handler takes to the store and the store accepts: a field
\* is supplied, every supplied field has a string form (it is not null and
\* has no toString property of its own), and the name, when supplied, is not
\* blank in its string form.
PatchBodyAccepted(body) ==
    /\ body.parsed
    /\ Supplied(body.name) \/ Supplied(body.description)
    /\ Supplied(body.name) => body.name.callable
    /\ Supplied(body.description) => body.description.callable
    /\ Supplied(body.name) =>
         \E k \in 1..Len(body.name.s) : body.name.s[k] \notin WhiteSpace

\* C1 as claimed: on a mutating route a request without the x-api-key header is
\* answered 401 and one whose x-api-key differs from the configured key is
\* answered 403, the collection unchanged.
C1_AnyOtherKeyIs403 ==
    [][Deciding(LAMBDA r, s :
         r.op \in Mutating =>
           /\ r.key = NoHeader => s.status = 401 /\ items' = items
           /\ r.key \notin {NoHeader, API_KEY} =>
                  s.status = 403 /\ items' = items)]_vars

\* C2 as claimed: an authorized Create with a name that is a non-blank string
\* answers 201 and adds one item whose name is the trimmed name, whose
\* description is the trimmed string form of the description given (empty
\* when omitted) and whose id is new.
C2_DescriptionCoerced ==
    [][Deciding(LAMBDA r, s :
         r.op = "POST" /\ Authorized(r) /\ NonBlankString(r.body.name) =>
           /\ s.status = 201
           /\ Len(items') = Len(items) + 1
           /\ SubSeq(items', 1, Len(items)) = items
           /\ LET it == items'[Len(items')]
              IN /\ IsTrimOf(it.name, r.body.name.s)
                 /\ IsTrimOf(it.description, r.body.description.s)
                 /\ it.id \notin Ids(items))]_vars

\* C3 as claimed: an authorized Create whose name is missing, empty, blank or
\* not a string answers 400 and leaves the collection unchanged.
C3_CreateRejected ==
    [][Deciding(LAMBDA r, s :
         r.op = "POST" /\ Authorized(r) /\ ~NonBlankString(r.body.name) =>
           s.status = 400 /\ items' = items)]_vars

\* C4 as claimed: in Create, PUT and PATCH an authorized request that supplies
\* a name which is not a non-blank string is answered 400 and leaves the
\* collection unchanged.
C4_SuppliedBadNameIs400 ==
    [][Deciding(LAMBDA r, s :
         /\ r.op \in {"POST", "PUT", "PATCH"}
         /\ Authorized(r)
         /\ Supplied(r.body.name)
         /\ ~NonBlankString(r.body.name)
         => s.status = 400 /\ items' = items)]_vars

\* C5 as claimed: a successful PUT or PATCH whose body omits description
\* leaves the item's description as it was.
C5_OmittedDescriptionKept ==
    [][Deciding(LAMBDA r, s :
         /\ r.op \in {"PUT", "PATCH"}
         /\ s.status = 200
         /\ ~Supplied(r.body.description)
         => items'[IndexOf(items', r.id)].description
                = items[IndexOf(items, r.id)].description)]_vars

\* C5, amended: a successful PATCH whose body omits description leaves the
\* item's description as it was; a successful PUT whose body omits description
\* stores the empty description.
C5_PatchKeepsPutClears ==
    [][Deciding(LAMBDA r, s :
         /\ r.op \in {"PUT", "PATCH"}
         /\ s.status = 200
         /\ ~Supplied(r.body.description)
         => /\ IndexOf(items, r.id) # 0
            /\ IndexOf(items', r.id) = IndexOf(items, r.id)
            /\ s.data = items'[IndexOf(items', r.id)]
            /\ s.data.description
                  = IF r.op = "PATCH"
                    THEN items[IndexOf(items, r.id)].description
                    ELSE <<>>)]_vars

C5_Witness ==
    /\ out.req.op = "PATCH" /\ out.res.status = 200
    /\ ~Supplied(out.req.body.description)
    /\ out.res.data.description = <<"a">>
    /\ \E c \in Clients :
         /\ pending[c].phase = "replied" /\ pending[c].req.op = "PUT"
         /\ pending[c].req.id = out.req.id /\ pending[c].res.status = 200

\* C6 as claimed: an authorized PATCH whose body has neither name nor
\* description answers 400 and leaves the collection unchanged, whatever the
\* id, and no store call is issued for it.
C6_EmptyPatch ==
    [][/\ Deciding(LAMBDA r, s :
            /\ r.op = "PATCH"
            /\ Authorized(r)
            /\ ~Supplied(r.body.name) /\ ~Supplied(r.body.description)
            => s.status = 400 /\ items' = items)
       /\ \A c \in Clients :
            pending'[c] # NoHandler /\ pending'[c].req.op = "PATCH" =>
                \/ Supplied(pending'[c].req.body.name)
                \/ Supplied(pending'[c].req.body.description)]_vars

\* C7: every stored item's name is a non-empty string equal to its trimmed
\* form.
C7_NameNeverEmpty ==
    \A i \in 1..Len(items) :
        /\ items[i].name # <<>>
        /\ IsTrimOf(items[i].name, items[i].name)

C7_Witness ==
    /\ out.req.op = "PATCH" /\ Authorized(out.req)
    /\ out.req.body.name \in {Str(<<" ", "\t">>), EmptyArray}
    /\ out.req.id \in Ids(items)
    /\ out.res.status = 500
    /\ items[IndexOf(items, out.req.id)].name = <<"7">>

\* C8: for Get by id, authorized PUT and PATCH with a body that passes
\* validation, and authorized DELETE: a malformed id is answered 400 and a
\* well-formed id of no stored item is answered 404, the collection unchanged.
C8_BadIdAndAbsentId ==
    [][Deciding(LAMBDA r, s :
         \/ r.op = "GET"
         \/ r.op = "DELETE" /\ Authorized(r)
         \/ r.op = "PUT" /\ Authorized(r) /\ NonBlankString(r.body.name)
         \/ r.op = "PATCH" /\ Authorized(r) /\ PatchBodyAccepted(r.body)
         => /\ r.id = BadId => s.status = 400 /\ items' = items
            /\ r.id # BadId /\ r.id \notin Ids(items) =>
                  s.status = 404 /\ items' = items)]_vars

C8_Witness ==
    /\ out.req.op = "PATCH" /\ Authorized(out.req)
    /\ PatchBodyAccepted(out.req.body)
    /\ out.req.id = BadId /\ out.res.status = 400
    /\ items # <<>>

\* C9 as claimed: once an authorized Delete of X has succeeded, every later
\* GET, PUT, PATCH or DELETE addressed to X is answered 404.
C9_EveryLaterRequestIs404 ==
    [][Deciding(LAMBDA r, s :
         r.op \in ById /\ r.id \in deleted => s.status = 404)]_vars

\* C9, amended: a Delete answered 200 echoes the item and removes it and
\* changes no other item; a deleted id is never in the collection again; and
\* of the requests decided after the Delete and addressed to the deleted id
\* none is answered 200, and every GET, every authorized DELETE, every
\* authorized PUT whose name is a non-blank string and every authorized PATCH
\* whose body passes validation is answered 404.
C9_DeletedStaysGone ==
    [][/\ Deciding(LAMBDA r, s :
            /\ r.op = "DELETE" /\ s.status = 200 =>
                 /\ IndexOf(items, r.id) # 0
                 /\ s.data = items[IndexOf(items, r.id)]
                 /\ r.id \notin Ids(items')
                 /\ Len(items') = Len(items) - 1
                 /\ \A i \in 1..Len(items) :
                        items[i].id # r.id =>
                            \E j \in 1..Len(items') : items'[j] = items[i]
            /\ r.op \in ById /\ r.id \in deleted =>
                 /\ s.status # 200
                 /\ \/ r.op = "GET"
                    \/ r.op = "DELETE" /\ Authorized(r)
                    \/ r.op = "PUT" /\ Authorized(r) /\ NonBlankString(r.body.name)
                    \/ r.op = "PATCH" /\ Authorized(r) /\ PatchBodyAccepted(r.body)
                    => s.status = 404)
       /\ \A x \in deleted : x \notin Ids(items')]_vars

C9_Witness ==
    /\ out.req.op = "PUT" /\ Authorized(out.req)
    /\ NonBlankString(out.req.body.name)
    /\ out.req.id \in deleted /\ out.res.status = 404
    /\ \E i \in 1..Len(items) : items[i].id > out.req.id

\* newest first
SortedDesc(docs) ==
    \A i, j \in 1..Len(docs) : i < j => docs[i].createdAt >= docs[j].createdAt

\* C10: List answers exactly the items the collection holds when the store
\* runs the query, count being their number, newest first; the collection
\* holds as many items as there were Creates answered 201 less the Deletes
\* answered 200; and a request answered 400, 401, 403, 404 or 500 leaves the
\* collection as it was.
C10_List ==
    [][/\ Deciding(LAMBDA r, s :
            /\ r.op = "LIST" =>
                 /\ s.status = 200
                 /\ s.count = Len(items)
                 /\ Len(s.data) = Len(items)
                 /\ \A i \in 1..Len(items) :
                        \E j \in 1..Len(s.data) : s.data[j] = items[i]
                 /\ SortedDesc(s.data)
                 /\ items' = items
            /\ Len(items') = Len(items)
                   + (IF r.op = "POST" /\ s.status = 201 THEN 1 ELSE 0)
                   - (IF r.op = "DELETE" /\ s.status = 200 THEN 1 ELSE 0)
            /\ s.status \in {400, 401, 403, 404, 500} => items' = items)
       /\ ~AnswersAtOnce /\ (\A c \in Clients : ~RunsFor(c)) => items' = items
       /\ Len(items') = (nextId' - 1) - Cardinality(deleted')]_vars

C10_Witness ==
    /\ out.req.op = "LIST"
    /\ out.res.count = 2
    /\ out.res.data[1].createdAt > out.res.data[2].createdAt
    /\ out.res.data[1].id = 2
    /\ Len(items) = 1
====
